---- MODULE Spec2Model ----
(***************************************************************************)
(* A model of the log-structured key-value engine of src/src/engine.rs.    *)
(*                                                                         *)
(* The data file is a sequence of bytes.  Every record is written as an    *)
(* 8-byte little-endian length followed by the wincode encoding of a       *)
(* DataFileEntry {tstamp: i64, key: Vec<u8>, value: Option<Vec<u8>>}.      *)
(* The index maps a key to the offset and length of the payload of its     *)
(* latest live record.  All offsets are 0-based byte offsets, as in the    *)
(* code; sequences are 1-based, so the byte at offset o is file[o + 1].    *)
(***************************************************************************)
EXTENDS Integers, Sequences, FiniteSets, TLC

\* ------------------------------------------------------------------ bounds

\* Number of set/del calls in one run of Spec, where every call succeeds.
MaxCalls == 4

\* Number of set/del calls in one run of FaultSpec, where any call may fail.
MaxFaultCalls == 2
MaxTornCalls == 2
MaxLockCalls == 2
MaxThreadCalls == 2
MaxCompactCalls == 2
Threshold == 64

\* ------------------------------------------------------- program constants

\* Width of the length prefix: `let mut len_buf = [0u8; 8]`.
LenBytes == 8

\* ------------------------------------------------------------------ inputs

\* Keys and values handed to set/del/get: byte strings of different lengths,
\* the value set holding the empty byte string.
Keys == { <<7>>, <<1, 0>> }

Values == { << >>, <<1>> }

\* Reading of the wall clock in milliseconds (bytes 2, 1, 0, ...).
TStamps == { 258 }

\* ------------------------------------------------------------------- bytes

\* A length the model's integers cannot hold: larger than any modelled file.
Huge == 2147483646 + 1

\* u64::to_le_bytes / i64::to_le_bytes, for 0 <= n < 2^31.
ToLE8(n) == [i \in 1..8 |-> CASE i = 1 -> n % 256
                              [] i = 2 -> (n \div 256) % 256
                              [] i = 3 -> (n \div 65536) % 256
                              [] i = 4 -> (n \div 16777216) % 256
                              [] OTHER -> 0]

\* u64::from_le_bytes; a value of 2^31 or more is reported as Huge.
FromLE8(b) ==
  IF b[4] < 128 /\ b[5] = 0 /\ b[6] = 0 /\ b[7] = 0 /\ b[8] = 0
  THEN b[1] + 256 * b[2] + 65536 * b[3] + 16777216 * b[4]
  ELSE Huge

\* Option<Vec<u8>>: None is the empty sequence, Some(v) the sequence <<v>>.
None == << >>

Some(v) == << v >>

IsSome(o) == Len(o) = 1

\* ------------------------------------------------------------ record codec

\* Mutant of Encode: an empty value is written as an absent one.
Encode_EmptyAsNone(tstamp, key, value) ==
  ToLE8(tstamp) \o ToLE8(Len(key)) \o key \o
  (IF IsSome(value) /\ value[1] # << >>
   THEN <<1>> \o ToLE8(Len(value[1])) \o value[1] ELSE <<0>>)

\* wincode::serialize(&DataFileEntry): tstamp as 8 bytes, key as an 8-byte
\* length and its bytes, value as a tag byte (0 = None, 1 = Some) followed,
\* for Some, by an 8-byte length and the bytes.
Encode(tstamp, key, value) ==
  ToLE8(tstamp) \o ToLE8(Len(key)) \o key \o
  (IF IsSome(value) THEN <<1>> \o ToLE8(Len(value[1])) \o value[1] ELSE <<0>>)

DecodeError == [ok |-> FALSE, tstamp |-> 0, key |-> << >>, value |-> None]

\* wincode::deserialize::<DataFileEntry>(&data): fails when a field needs
\* more bytes than are left or the Option tag is neither 0 nor 1; bytes after
\* the last field are not looked at.
Decode(b) ==
  LET n == Len(b) IN
  IF n < 16 THEN DecodeError
  ELSE
    LET klen == FromLE8(SubSeq(b, 9, 16)) IN
    IF klen > n - 16 THEN DecodeError
    ELSE
      LET key == SubSeq(b, 17, 16 + klen)
          tagpos == 17 + klen
          ts == FromLE8(SubSeq(b, 1, 8))
      IN
      IF tagpos > n THEN DecodeError
      ELSE IF b[tagpos] = 0
        THEN [ok |-> TRUE, tstamp |-> ts, key |-> key, value |-> None]
      ELSE IF b[tagpos] = 1
        THEN IF n - tagpos < 8 THEN DecodeError
             ELSE LET vlen == FromLE8(SubSeq(b, tagpos + 1, tagpos + 8)) IN
                  IF vlen > n - tagpos - 8 THEN DecodeError
                  ELSE [ok |-> TRUE, tstamp |-> ts, key |-> key,
                        value |-> Some(SubSeq(b, tagpos + 9, tagpos + 8 + vlen))]
      ELSE DecodeError

\* ------------------------------------------------------------------- index

\* HashMap<Vec<u8>, LogIndex>: a function from the keys present to
\* [pos, len].
EmptyIndex == [k \in {} |-> [pos |-> 0, len |-> 0]]

\* Mutant of IndexInsert: an existing entry is kept (or_insert).
IndexInsert_KeepsOld(idx, key, pos, len) ==
  [k \in (DOMAIN idx) \cup {key} |->
     IF k \in DOMAIN idx THEN idx[k] ELSE [pos |-> pos, len |-> len]]

IndexInsert(idx, key, pos, len) ==
  [k \in (DOMAIN idx) \cup {key} |->
     IF k = key THEN [pos |-> pos, len |-> len] ELSE idx[k]]

\* Mutant of IndexRemove: nothing is removed.
IndexRemove_Noop(idx, key) == idx

IndexRemove(idx, key) == [k \in (DOMAIN idx) \ {key} |-> idx[k]]

\* ------------------------------------------------------------------- state

VARIABLES
  file,     \* the bytes of the data file at the engine's path
  engine,   \* "open": an Engine exists; "none": load returned Err
  index,    \* Engine.index
  cursor,   \* stream position of Engine.file
  ret,      \* the last call and what it returned
  hist,     \* history: every set/del call so far, in order, with the number
            \* of bytes of its frame that reached the file and its outcome
  calls,    \* number of set/del calls so far
  tmp,      \* the bytes of compaction's temporary file (empty: none)
  pc,       \* per thread: where its call in flight stands ("idle": none)
  local,    \* per thread: the local variables of its call in flight
  fileLock, \* the thread that holds the file lock, 0 if none
  indexLock \* the index read/write lock: its writer (0 if none), its readers

tvars == << pc, local, fileLock, indexLock >>

xvars == << tmp, tvars >>

vars == << file, engine, index, cursor, ret, hist, calls, xvars >>

\* The threads that call into one shared engine.
Threads == { 1, 2 }

NoLocal ==
  [op |-> "", key |-> << >>, value |-> None, tstamp |-> 0, data |-> << >>,
   pos |-> 0, len |-> 0, snap |-> << >>]

Ret(op, key, arg, ok, err, out) ==
  [op |-> op, key |-> key, arg |-> arg, ok |-> ok, err |-> err, out |-> out]

Call(key, value, tstamp, written, ok) ==
  [key |-> key, value |-> value, tstamp |-> tstamp, written |-> written, ok |-> ok]

\* --------------------------------------------------------------- operations

\* Mutants of rebuild_index.  "keeps_deleted": a tombstone leaves the entry
\* in place.  "pos_at_prefix": the offset recorded is that of the length
\* prefix.  "drops_tail": a payload cut short ends the scan like end-of-file.
RECURSIVE rebuild_index_bug(_, _, _, _)
rebuild_index_bug(f, off, idx, bug) ==
  IF Len(f) - off < LenBytes
  THEN [ok |-> TRUE, err |-> "", index |-> idx, cursor |-> Len(f)]
  ELSE
    LET entry_len == FromLE8(SubSeq(f, off + 1, off + LenBytes))
        data_pos == off + LenBytes
    IN
    IF entry_len > Len(f) - data_pos
    THEN IF bug = "drops_tail"
         THEN [ok |-> TRUE, err |-> "", index |-> idx, cursor |-> Len(f)]
         ELSE [ok |-> FALSE, err |-> "UnexpectedEof", index |-> EmptyIndex, cursor |-> 0]
    ELSE
      LET entry == Decode(SubSeq(f, data_pos + 1, data_pos + entry_len)) IN
      IF ~entry.ok
      THEN [ok |-> FALSE, err |-> "InvalidData", index |-> EmptyIndex, cursor |-> 0]
      ELSE IF IsSome(entry.value)
      THEN rebuild_index_bug(f, data_pos + entry_len,
             IndexInsert(idx, entry.key,
                         IF bug = "pos_at_prefix" THEN off ELSE data_pos, entry_len),
             bug)
      ELSE rebuild_index_bug(f, data_pos + entry_len,
             IF bug = "keeps_deleted" THEN idx ELSE IndexRemove(idx, entry.key),
             bug)

rebuild_index_KeepsDeleted(f, off, idx) == rebuild_index_bug(f, off, idx, "keeps_deleted")

rebuild_index_PosAtPrefix(f, off, idx) == rebuild_index_bug(f, off, idx, "pos_at_prefix")

rebuild_index_DropsTail(f, off, idx) == rebuild_index_bug(f, off, idx, "drops_tail")

\* Engine::rebuild_index from offset `off` with the index `idx` built so far:
\* the loop of lines 35-66.  Fewer than 8 bytes left ends the scan; a payload
\* shorter than its prefix announces is the UnexpectedEof error of
\* read_exact (the buffer of entry_len bytes is taken to be allocated); a
\* payload that does not decode is InvalidData.
RECURSIVE rebuild_index(_, _, _)
rebuild_index(f, off, idx) ==
  IF Len(f) - off < LenBytes
  THEN [ok |-> TRUE, err |-> "", index |-> idx, cursor |-> Len(f)]
  ELSE
    LET entry_len == FromLE8(SubSeq(f, off + 1, off + LenBytes))
        data_pos == off + LenBytes
    IN
    IF entry_len > Len(f) - data_pos
    THEN [ok |-> FALSE, err |-> "UnexpectedEof", index |-> EmptyIndex, cursor |-> 0]
    ELSE
      LET entry == Decode(SubSeq(f, data_pos + 1, data_pos + entry_len)) IN
      IF ~entry.ok
      THEN [ok |-> FALSE, err |-> "InvalidData", index |-> EmptyIndex, cursor |-> 0]
      ELSE IF IsSome(entry.value)
      THEN rebuild_index(f, data_pos + entry_len,
                         IndexInsert(idx, entry.key, data_pos, entry_len))
      ELSE rebuild_index(f, data_pos + entry_len, IndexRemove(idx, entry.key))

\* What Engine::get returns for `key` with index `idx` over file `f`, and
\* where it leaves the cursor (-1: not moved).
GetResult(idx, f, key) ==
  IF key \notin DOMAIN idx
  THEN [ok |-> TRUE, err |-> "", out |-> None, cursor |-> -1]
  ELSE
    LET log_index == idx[key] IN
    IF log_index.pos + log_index.len > Len(f)
    THEN [ok |-> FALSE, err |-> "UnexpectedEof", out |-> None, cursor |-> Len(f)]
    ELSE
      LET entry == Decode(SubSeq(f, log_index.pos + 1, log_index.pos + log_index.len)) IN
      IF ~entry.ok
      THEN [ok |-> FALSE, err |-> "InvalidData", out |-> None,
            cursor |-> log_index.pos + log_index.len]
      ELSE [ok |-> TRUE, err |-> "", out |-> entry.value,
            cursor |-> log_index.pos + log_index.len]

\* The frame set and del append: length prefix, then payload.
Frame(data) == ToLE8(Len(data)) \o data

\* Engine::load on a path where no file exists yet.
Init ==
  /\ file = << >>
  /\ engine = "open"
  /\ index = EmptyIndex
  /\ cursor = 0
  /\ ret = Ret("load", << >>, << >>, TRUE, "", None)
  /\ hist = << >>
  /\ calls = 0
  /\ tmp = << >>
  /\ pc = [t \in Threads |-> "idle"]
  /\ local = [t \in Threads |-> NoLocal]
  /\ fileLock = 0
  /\ indexLock = [writer |-> 0, readers |-> {}]

\* File::write_all at stream position `off`: the bytes replace what the file
\* holds there and extend it past its end.
WriteAt(f, off, bytes) ==
  [i \in 1..(IF off + Len(bytes) > Len(f) THEN off + Len(bytes) ELSE Len(f)) |->
     IF i > off /\ i <= off + Len(bytes) THEN bytes[i - off] ELSE f[i]]

\* Mutant of Set: the seek to the end of the file is left out, so the frame
\* is written wherever the last get left the cursor.
Set_AtCursor(key, value, tstamp) ==
  /\ engine = "open"
  /\ LET data == Encode(tstamp, key, Some(value))
         entry_len == Len(data)
         data_pos == cursor + LenBytes
     IN
     /\ file' = WriteAt(file, cursor, ToLE8(entry_len) \o data)
     /\ index' = IndexInsert(index, key, data_pos, entry_len)
     /\ cursor' = data_pos + entry_len
     /\ hist' = Append(hist, Call(key, Some(value), tstamp, LenBytes + entry_len, TRUE))
  /\ ret' = Ret("set", key, value, TRUE, "", None)
  /\ calls' = calls + 1
  /\ UNCHANGED engine

\* Mutants of Set.  The offset recorded is taken before the length prefix is
\* written (posShift = LenBytes), or the length recorded counts the prefix
\* (lenExtra = LenBytes).
Set_bug(key, value, tstamp, posShift, lenExtra) ==
  /\ engine = "open"
  /\ LET data == Encode(tstamp, key, Some(value))
         entry_len == Len(data)
         data_pos == Len(file) + LenBytes
     IN
     /\ file' = file \o ToLE8(entry_len) \o data
     /\ index' = IndexInsert(index, key, data_pos - posShift, entry_len + lenExtra)
     /\ cursor' = data_pos + entry_len
     /\ hist' = Append(hist, Call(key, Some(value), tstamp, LenBytes + entry_len, TRUE))
  /\ ret' = Ret("set", key, value, TRUE, "", None)
  /\ calls' = calls + 1
  /\ UNCHANGED engine

Set_PosAtPrefix(key, value, tstamp) == Set_bug(key, value, tstamp, LenBytes, 0)

Set_LenWithPrefix(key, value, tstamp) == Set_bug(key, value, tstamp, 0, LenBytes)

\* Engine::set(key, value), every step succeeding.
Set(key, value, tstamp) ==
  /\ engine = "open"
  /\ LET data == Encode(tstamp, key, Some(value))
         entry_len == Len(data)
         data_pos == Len(file) + LenBytes
     IN
     /\ file' = file \o ToLE8(entry_len) \o data
     /\ index' = IndexInsert(index, key, data_pos, entry_len)
     /\ cursor' = data_pos + entry_len
     /\ hist' = Append(hist, Call(key, Some(value), tstamp, LenBytes + entry_len, TRUE))
  /\ ret' = Ret("set", key, value, TRUE, "", None)
  /\ calls' = calls + 1
  /\ UNCHANGED engine

\* Mutant of Del: nothing is appended for a key that is not in the index.
Del_SkipsAbsent(key, tstamp) ==
  /\ engine = "open"
  /\ LET data == Encode(tstamp, key, None)
         entry_len == Len(data)
         absent == key \notin DOMAIN index
     IN
     /\ file' = IF absent THEN file ELSE file \o ToLE8(entry_len) \o data
     /\ index' = IndexRemove(index, key)
     /\ cursor' = IF absent THEN cursor ELSE Len(file) + LenBytes + entry_len
     /\ hist' = Append(hist, Call(key, None, tstamp, LenBytes + entry_len, TRUE))
  /\ ret' = Ret("del", key, << >>, TRUE, "", None)
  /\ calls' = calls + 1
  /\ UNCHANGED engine

\* Mutant of Del: the whole index is cleared.
Del_ClearsIndex(key, tstamp) ==
  /\ engine = "open"
  /\ LET data == Encode(tstamp, key, None)
         entry_len == Len(data)
     IN
     /\ file' = file \o ToLE8(entry_len) \o data
     /\ index' = EmptyIndex
     /\ cursor' = Len(file) + LenBytes + entry_len
     /\ hist' = Append(hist, Call(key, None, tstamp, LenBytes + entry_len, TRUE))
  /\ ret' = Ret("del", key, << >>, TRUE, "", None)
  /\ calls' = calls + 1
  /\ UNCHANGED engine

\* Mutant of Del: a key that is not in the index is refused with an error
\* and nothing is written.
Del_ErrIfAbsent(key, tstamp) ==
  /\ engine = "open"
  /\ LET data == Encode(tstamp, key, None)
         entry_len == Len(data)
         absent == key \notin DOMAIN index
     IN
     /\ file' = IF absent THEN file ELSE file \o ToLE8(entry_len) \o data
     /\ index' = IndexRemove(index, key)
     /\ cursor' = IF absent THEN cursor ELSE Len(file) + LenBytes + entry_len
     /\ hist' = Append(hist, Call(key, None, tstamp,
                                  IF absent THEN 0 ELSE LenBytes + entry_len, ~absent))
     /\ ret' = Ret("del", key, << >>, ~absent, IF absent THEN "NotFound" ELSE "", None)
  /\ calls' = calls + 1
  /\ UNCHANGED engine

\* Engine::del(key), every step succeeding.
Del(key, tstamp) ==
  /\ engine = "open"
  /\ LET data == Encode(tstamp, key, None)
         entry_len == Len(data)
     IN
     /\ file' = file \o ToLE8(entry_len) \o data
     /\ index' = IndexRemove(index, key)
     /\ cursor' = Len(file) + LenBytes + entry_len
     /\ hist' = Append(hist, Call(key, None, tstamp, LenBytes + entry_len, TRUE))
  /\ ret' = Ret("del", key, << >>, TRUE, "", None)
  /\ calls' = calls + 1
  /\ UNCHANGED engine

\* Engine::get(key).
Get(key) ==
  /\ engine = "open"
  /\ LET r == GetResult(index, file, key) IN
     /\ ret' = Ret("get", key, << >>, r.ok, r.err, r.out)
     /\ cursor' = IF r.cursor = -1 THEN cursor ELSE r.cursor
  /\ UNCHANGED << file, engine, index, hist, calls >>

\* The engine, if there is one, is dropped and Engine::load opens the file
\* at the same path.
Load ==
  /\ LET r == rebuild_index(file, 0, EmptyIndex) IN
     /\ engine' = IF r.ok THEN "open" ELSE "none"
     /\ index' = r.index
     /\ cursor' = r.cursor
     /\ ret' = Ret("load", << >>, << >>, r.ok, r.err, None)
  /\ UNCHANGED << file, hist, calls >>

\* How many bytes of a frame of payload length `len` can have reached the file
\* when a step of set/del returns an error: none (serialize or seek failed),
\* part of the length prefix, the whole prefix and no payload
\* (stream_position or the first payload write failed), part of the payload,
\* or the whole frame (flush failed).
Cuts(len) == { 0, 3, LenBytes, LenBytes + len - 1, LenBytes + len }

\* Mutant of FailedWrite: set puts the entry in the index before it writes.
FailedWrite_IndexFirst(op, key, arg, value, tstamp, written) ==
  /\ engine = "open"
  /\ file' = file \o SubSeq(Frame(Encode(tstamp, key, value)), 1, written)
  /\ cursor' = IF written = 0 THEN cursor ELSE Len(file) + written
  /\ ret' = Ret(op, key, arg, FALSE, "Io", None)
  /\ hist' = Append(hist, Call(key, value, tstamp, written, FALSE))
  /\ calls' = calls + 1
  /\ index' = IF op = "set"
              THEN IndexInsert(index, key, Len(file) + LenBytes,
                               Len(Encode(tstamp, key, value)))
              ELSE index
  /\ UNCHANGED engine

\* A set or del that returns Err after `written` bytes of its frame were
\* appended: every `?` of lines 83-93 and 118-128 returns before the index is
\* touched.
FailedWrite(op, key, arg, value, tstamp, written) ==
  /\ engine = "open"
  /\ file' = file \o SubSeq(Frame(Encode(tstamp, key, value)), 1, written)
  /\ cursor' = IF written = 0 THEN cursor ELSE Len(file) + written
  /\ ret' = Ret(op, key, arg, FALSE, "Io", None)
  /\ hist' = Append(hist, Call(key, value, tstamp, written, FALSE))
  /\ calls' = calls + 1
  /\ UNCHANGED << engine, index >>

SetFail(key, value, tstamp, written) ==
  FailedWrite("set", key, value, Some(value), tstamp, written)

DelFail(key, tstamp, written) ==
  FailedWrite("del", key, << >>, None, tstamp, written)

Next ==
  \/ calls < MaxCalls /\ \E k \in Keys, v \in Values, t \in TStamps : Set(k, v, t)
       /\ UNCHANGED xvars
  \/ calls < MaxCalls /\ \E k \in Keys, t \in TStamps : Del(k, t)
       /\ UNCHANGED xvars
  \/ \E k \in Keys : Get(k)
       /\ UNCHANGED xvars
  \/ Load
       /\ UNCHANGED xvars

Spec == Init /\ [][Next]_vars

\* The same engine with set and del calls that may fail part-way.
NextFault ==
  \/ calls < MaxFaultCalls /\ \E k \in Keys, v \in Values, t \in TStamps : Set(k, v, t)
       /\ UNCHANGED xvars
  \/ calls < MaxFaultCalls /\ \E k \in Keys, t \in TStamps : Del(k, t)
       /\ UNCHANGED xvars
  \/ calls < MaxFaultCalls /\ \E k \in Keys, v \in Values, t \in TStamps :
       \E n \in Cuts(Len(Encode(t, k, Some(v)))) : SetFail(k, v, t, n)
       /\ UNCHANGED xvars
  \/ calls < MaxFaultCalls /\ \E k \in Keys, t \in TStamps :
       \E n \in Cuts(Len(Encode(t, k, None))) : DelFail(k, t, n)
       /\ UNCHANGED xvars
  \/ \E k \in Keys : Get(k)
       /\ UNCHANGED xvars
  \/ Load
       /\ UNCHANGED xvars

FaultSpec == Init /\ [][NextFault]_vars

\* ------------------------------------------------------------ compaction

\* Index snapshot(): the entries in an iteration order nobody fixed.
Snapshots(idx) ==
  { order \in [1..Cardinality(DOMAIN idx) -> DOMAIN idx] :
      \A i, j \in DOMAIN order : order[i] = order[j] => i = j }

\* compact()'s rewrite: for each entry of the snapshot, from the i-th on, the
\* payload is read out of the log at the entry's location and re-appended
\* unchanged, behind its length prefix, to the new file `out`; `idx` collects
\* the new locations.  A payload that cannot be read whole stops the rewrite.
RECURSIVE Rewrite(_, _, _, _, _, _)
Rewrite(old, f, order, i, out, idx) ==
  IF i > Len(order)
  THEN [ok |-> TRUE, err |-> "", file |-> out, index |-> idx]
  ELSE
    LET log_index == old[order[i]] IN
    IF log_index.pos + log_index.len > Len(f)
    THEN [ok |-> FALSE, err |-> "UnexpectedEof", file |-> out, index |-> idx]
    ELSE
      LET data == SubSeq(f, log_index.pos + 1, log_index.pos + log_index.len) IN
      Rewrite(old, f, order, i + 1, out \o Frame(data),
              IndexInsert(idx, order[i], Len(out) + LenBytes, log_index.len))

\* Mutant of Compact: the file is replaced but the index keeps the old
\* locations.
Compact_KeepsOldIndex(order) ==
  /\ engine = "open"
  /\ LET r == Rewrite(index, file, order, 1, << >>, EmptyIndex) IN
     /\ file' = IF r.ok THEN r.file ELSE file
     /\ index' = index
     /\ cursor' = IF r.ok THEN Len(r.file) ELSE cursor
     /\ tmp' = IF r.ok THEN << >> ELSE r.file
     /\ ret' = Ret("compact", << >>, << >>, r.ok, r.err, None)
  /\ UNCHANGED << engine, hist, calls >>

\* Mutant of Compact: compaction returns Ok without rewriting anything.
Compact_KeepsFile(order) ==
  /\ engine = "open"
  /\ ret' = Ret("compact", << >>, << >>, TRUE, "", None)
  /\ UNCHANGED << file, index, cursor, tmp, engine, hist, calls >>

\* compact(): the live payloads are rewritten into the temporary file; when
\* all are written the temporary file is renamed over the log and the index
\* is replaced by the new locations.  The engine carries on with a handle on
\* the new file, positioned at its end.
Compact(order) ==
  /\ engine = "open"
  /\ LET r == Rewrite(index, file, order, 1, << >>, EmptyIndex) IN
     /\ file' = IF r.ok THEN r.file ELSE file
     /\ index' = IF r.ok THEN r.index ELSE index
     /\ cursor' = IF r.ok THEN Len(r.file) ELSE cursor
     /\ tmp' = IF r.ok THEN << >> ELSE r.file
     /\ ret' = Ret("compact", << >>, << >>, r.ok, r.err, None)
  /\ UNCHANGED << engine, hist, calls >>

\* Where a compaction can fail: before anything reached the temporary file
\* (the first read fails), part-way through writing it, or at the rename,
\* when the temporary file is complete.
FailPoints(len) == { 0, len \div 2, len }

\* Mutant of CompactFail: the log is rewritten in place instead of through a
\* temporary file.
CompactFail_InPlace(order, written) ==
  /\ engine = "open"
  /\ LET r == Rewrite(index, file, order, 1, << >>, EmptyIndex) IN
     /\ file' = SubSeq(r.file, 1, written)
     /\ ret' = Ret("compact", << >>, << >>, FALSE, "Io", None)
  /\ UNCHANGED << tmp, index, cursor, engine, hist, calls >>

\* compact() that fails after `written` bytes of the temporary file: the
\* rename did not happen, the log and the index are not touched.
CompactFail(order, written) ==
  /\ engine = "open"
  /\ LET r == Rewrite(index, file, order, 1, << >>, EmptyIndex) IN
     /\ tmp' = SubSeq(r.file, 1, written)
     /\ ret' = Ret("compact", << >>, << >>, FALSE, "Io", None)
  /\ UNCHANGED << file, index, cursor, engine, hist, calls >>

NextCompact ==
  \/ calls < MaxCompactCalls /\ \E k \in Keys, v \in Values, t \in TStamps : Set(k, v, t)
       /\ UNCHANGED xvars
  \/ calls < MaxCompactCalls /\ \E k \in Keys, t \in TStamps : Del(k, t)
       /\ UNCHANGED xvars
  \/ \E k \in Keys : Get(k)
       /\ UNCHANGED xvars
  \/ Load
       /\ UNCHANGED xvars
  \/ \E order \in Snapshots(index) : Compact(order)
       /\ UNCHANGED tvars
  \/ \E order \in Snapshots(index) :
       \E n \in FailPoints(Len(Rewrite(index, file, order, 1, << >>, EmptyIndex).file)) :
         CompactFail(order, n)
       /\ UNCHANGED tvars

CompactSpec == Init /\ [][NextCompact]_vars

\* ------------------------------------------- handlers on several threads

\* The server hands one Engine to every worker and the handlers call set, get
\* and del on it without a lock.  A call is then a sequence of steps, one per
\* operation on the engine's one file handle or on its index, and the steps
\* of the calls of different threads interleave.

\* Engine::get up to the index lookup: a key that is not indexed returns
\* Ok(None) at once.
TGet(t, key) ==
  /\ engine = "open" /\ pc[t] = "idle"
  /\ IF key \notin DOMAIN index
     THEN /\ ret' = Ret("get", key, << >>, TRUE, "", None)
          /\ UNCHANGED << pc, local >>
     ELSE /\ local' = [local EXCEPT ![t] =
                         [op |-> "get", key |-> key, value |-> None, tstamp |-> 0, data |-> << >>,
                          pos |-> index[key].pos, len |-> index[key].len,
                          snap |-> << >>]]
          /\ pc' = [pc EXCEPT ![t] = "get_seek"]
          /\ UNCHANGED ret
  /\ UNCHANGED << file, engine, index, cursor, hist, calls, tmp, fileLock, indexLock >>

\* self.file.seek(SeekFrom::Start(log_index.pos)).
TGetSeek(t) ==
  /\ pc[t] = "get_seek"
  /\ cursor' = local[t].pos
  /\ pc' = [pc EXCEPT ![t] = "get_read"]
  /\ UNCHANGED << file, engine, index, ret, hist, calls, tmp, local, fileLock, indexLock >>

\* self.file.read_exact(&mut data), which reads log_index.len bytes from
\* wherever the cursor stands, then deserialize and return.
TGetRead(t) ==
  /\ pc[t] = "get_read"
  /\ IF cursor + local[t].len > Len(file)
     THEN /\ ret' = Ret("get", local[t].key, << >>, FALSE, "UnexpectedEof", None)
          /\ cursor' = Len(file)
     ELSE LET entry == Decode(SubSeq(file, cursor + 1, cursor + local[t].len)) IN
          /\ ret' = IF entry.ok
                    THEN Ret("get", local[t].key, << >>, TRUE, "", entry.value)
                    ELSE Ret("get", local[t].key, << >>, FALSE, "InvalidData", None)
          /\ cursor' = cursor + local[t].len
  /\ pc' = [pc EXCEPT ![t] = "idle"]
  /\ UNCHANGED << file, engine, index, hist, calls, tmp, local, fileLock, indexLock >>

\* Engine::set or Engine::del (value None) up to self.file.seek(End(0)).
TWrite(t, op, key, value, tstamp) ==
  /\ engine = "open" /\ pc[t] = "idle"
  /\ LET data == Encode(tstamp, key, value) IN
     local' = [local EXCEPT ![t] =
                 [op |-> op, key |-> key, value |-> value, tstamp |-> tstamp,
                  data |-> data, pos |-> 0, len |-> Len(data), snap |-> << >>]]
  /\ cursor' = Len(file)
  /\ pc' = [pc EXCEPT ![t] = "write_prefix"]
  /\ calls' = calls + 1
  /\ UNCHANGED << file, engine, index, ret, hist, tmp, fileLock, indexLock >>

TSet(t, key, value, tstamp) == TWrite(t, "set", key, Some(value), tstamp)

TDel(t, key, tstamp) == TWrite(t, "del", key, None, tstamp)

\* self.file.write_all(&entry_len.to_le_bytes()).
TWritePrefix(t) ==
  /\ pc[t] = "write_prefix"
  /\ file' = WriteAt(file, cursor, ToLE8(local[t].len))
  /\ cursor' = cursor + LenBytes
  /\ pc' = [pc EXCEPT ![t] = IF local[t].op = "set" THEN "stream_position"
                                                     ELSE "write_data"]
  /\ UNCHANGED << engine, index, ret, hist, calls, tmp, local, fileLock, indexLock >>

\* let data_pos = self.file.stream_position(), in set only.
TStreamPosition(t) ==
  /\ pc[t] = "stream_position"
  /\ local' = [local EXCEPT ![t].pos = cursor]
  /\ pc' = [pc EXCEPT ![t] = "write_data"]
  /\ UNCHANGED << file, engine, index, cursor, ret, hist, calls, tmp, fileLock, indexLock >>

\* self.file.write_all(&data) and flush.
TWriteData(t) ==
  /\ pc[t] = "write_data"
  /\ file' = WriteAt(file, cursor, local[t].data)
  /\ cursor' = cursor + local[t].len
  /\ pc' = [pc EXCEPT ![t] = "index"]
  /\ UNCHANGED << engine, index, ret, hist, calls, tmp, local, fileLock, indexLock >>

\* self.index.insert(key, LogIndex { pos: data_pos, len }) in set,
\* self.index.remove(&key) in del; then Ok(()).
TIndex(t) ==
  /\ pc[t] = "index"
  /\ index' = IF local[t].op = "set"
              THEN IndexInsert(index, local[t].key, local[t].pos, local[t].len)
              ELSE IndexRemove(index, local[t].key)
  /\ hist' = Append(hist, Call(local[t].key, local[t].value, local[t].tstamp,
                               LenBytes + local[t].len, TRUE))
  /\ ret' = Ret(local[t].op, local[t].key,
                IF IsSome(local[t].value) THEN local[t].value[1] ELSE << >>, TRUE, "", None)
  /\ pc' = [pc EXCEPT ![t] = "idle"]
  /\ UNCHANGED << file, engine, cursor, calls, tmp, local, fileLock, indexLock >>

NextThreads ==
  \/ calls < MaxThreadCalls
       /\ \E t \in Threads, k \in Keys, v \in Values, ts \in TStamps : TSet(t, k, v, ts)
  \/ calls < MaxThreadCalls
       /\ \E t \in Threads, k \in Keys, ts \in TStamps : TDel(t, k, ts)
  \/ \E t \in Threads, k \in Keys : TGet(t, k)
  \/ \E t \in Threads : TGetSeek(t)
  \/ \E t \in Threads : TGetRead(t)
  \/ \E t \in Threads : TWritePrefix(t)
  \/ \E t \in Threads : TStreamPosition(t)
  \/ \E t \in Threads : TWriteData(t)
  \/ \E t \in Threads : TIndex(t)

ThreadSpec == Init /\ [][NextThreads]_vars

\* -------------------------------------------------- the locking discipline

\* The engine with its two locks: the file lock serialises set, del and
\* compact's rewrite; the index lock is a read/write lock, read-held by get's
\* lookup and write-held for the moment the mapping changes.  get reads the
\* file through a handle of its own.  Locks block: a step that acquires a
\* lock is enabled only while the lock can be had.

HoldsIndex(t) == indexLock.writer = t \/ t \in indexLock.readers

\* A set, del, get or compact call starts on an idle thread.
LStart(t, op, key, value, tstamp) ==
  /\ engine = "open" /\ pc[t] = "idle"
  /\ local' = [local EXCEPT ![t] =
                 [op |-> op, key |-> key, value |-> value, tstamp |-> tstamp,
                  data |-> IF op \in {"set", "del"} THEN Encode(tstamp, key, value)
                                                    ELSE << >>,
                  pos |-> 0, len |-> 0, snap |-> << >>]]
  /\ pc' = [pc EXCEPT ![t] = IF op = "get" THEN "read_lock" ELSE "file_lock"]
  /\ calls' = calls + 1
  /\ UNCHANGED << file, engine, index, cursor, ret, hist, tmp, fileLock, indexLock >>

LSet(t, key, value, tstamp) == LStart(t, "set", key, Some(value), tstamp)

LDel(t, key, tstamp) == LStart(t, "del", key, None, tstamp)

LGet(t, key) == LStart(t, "get", key, None, 0)

LCompact(t) == LStart(t, "compact", << >>, None, 0)

\* set, del, compact: take the file lock.
LAcquireFile(t) ==
  /\ pc[t] = "file_lock" /\ fileLock = 0
  /\ fileLock' = t
  /\ pc' = [pc EXCEPT ![t] = IF local[t].op = "compact" THEN "read_lock" ELSE "append"]
  /\ UNCHANGED << file, engine, index, cursor, ret, hist, calls, tmp, local, indexLock >>

\* set, del: append the frame under the file lock, then give the lock up.
LAppend(t) ==
  /\ pc[t] = "append" /\ fileLock = t
  /\ file' = file \o Frame(local[t].data)
  /\ cursor' = Len(file) + LenBytes + Len(local[t].data)
  /\ local' = [local EXCEPT ![t].pos = Len(file) + LenBytes,
                            ![t].len = Len(local[t].data)]
  /\ fileLock' = 0
  /\ pc' = [pc EXCEPT ![t] = "index_lock"]
  /\ UNCHANGED << engine, index, ret, hist, calls, tmp, indexLock >>

\* set, del, compact: take the index lock exclusively.
LAcquireIndexWrite(t) ==
  /\ pc[t] = "index_lock"
  /\ indexLock.writer = 0 /\ indexLock.readers = {}
  /\ indexLock' = [indexLock EXCEPT !.writer = t]
  /\ pc' = [pc EXCEPT ![t] = IF local[t].op = "compact" THEN "swap" ELSE "index_put"]
  /\ UNCHANGED << file, engine, index, cursor, ret, hist, calls, tmp, local, fileLock >>

\* Mutant of LIndexPut: a set that goes on to compact keeps the index lock.
LIndexPut_KeepsIndexLock(t, compacts) ==
  /\ pc[t] = "index_put" /\ indexLock.writer = t
  /\ compacts => local[t].op = "set"
  /\ index' = IF local[t].op = "set"
              THEN IndexInsert(index, local[t].key, local[t].pos, local[t].len)
              ELSE IndexRemove(index, local[t].key)
  /\ hist' = Append(hist, Call(local[t].key, local[t].value, local[t].tstamp,
                               LenBytes + local[t].len, TRUE))
  /\ indexLock' = IF compacts THEN indexLock ELSE [indexLock EXCEPT !.writer = 0]
  /\ IF compacts
     THEN /\ local' = [local EXCEPT ![t].op = "compact"]
          /\ pc' = [pc EXCEPT ![t] = "file_lock"]
          /\ UNCHANGED ret
     ELSE /\ ret' = Ret(local[t].op, local[t].key,
                        IF IsSome(local[t].value) THEN local[t].value[1] ELSE << >>,
                        TRUE, "", None)
          /\ pc' = [pc EXCEPT ![t] = "idle"]
          /\ UNCHANGED local
  /\ UNCHANGED << file, engine, cursor, calls, tmp, fileLock >>

\* set, del: change the mapping and give the index lock up.  A set that
\* finds the threshold reached (`compacts`) goes on to compact on the same
\* thread before it returns; a del never does.
LIndexPut(t, compacts) ==
  /\ pc[t] = "index_put" /\ indexLock.writer = t
  /\ compacts => local[t].op = "set"
  /\ index' = IF local[t].op = "set"
              THEN IndexInsert(index, local[t].key, local[t].pos, local[t].len)
              ELSE IndexRemove(index, local[t].key)
  /\ hist' = Append(hist, Call(local[t].key, local[t].value, local[t].tstamp,
                               LenBytes + local[t].len, TRUE))
  /\ indexLock' = [indexLock EXCEPT !.writer = 0]
  /\ IF compacts
     THEN /\ local' = [local EXCEPT ![t].op = "compact"]
          /\ pc' = [pc EXCEPT ![t] = "file_lock"]
          /\ UNCHANGED ret
     ELSE /\ ret' = Ret(local[t].op, local[t].key,
                        IF IsSome(local[t].value) THEN local[t].value[1] ELSE << >>,
                        TRUE, "", None)
          /\ pc' = [pc EXCEPT ![t] = "idle"]
          /\ UNCHANGED local
  /\ UNCHANGED << file, engine, cursor, calls, tmp, fileLock >>

\* get, and compact for its snapshot: take the index lock shared.
LAcquireIndexRead(t) ==
  /\ pc[t] = "read_lock" /\ indexLock.writer = 0
  /\ indexLock' = [indexLock EXCEPT !.readers = @ \cup {t}]
  /\ pc' = [pc EXCEPT ![t] = IF local[t].op = "compact" THEN "snapshot" ELSE "lookup"]
  /\ UNCHANGED << file, engine, index, cursor, ret, hist, calls, tmp, local, fileLock >>

\* get: look the key up and give the index lock up; a key that is not
\* indexed is "not found".
LLookup(t) ==
  /\ pc[t] = "lookup" /\ t \in indexLock.readers
  /\ indexLock' = [indexLock EXCEPT !.readers = @ \ {t}]
  /\ IF local[t].key \notin DOMAIN index
     THEN /\ ret' = Ret("get", local[t].key, << >>, TRUE, "", None)
          /\ pc' = [pc EXCEPT ![t] = "idle"]
          /\ UNCHANGED local
     ELSE /\ local' = [local EXCEPT ![t].pos = index[local[t].key].pos,
                                    ![t].len = index[local[t].key].len]
          /\ pc' = [pc EXCEPT ![t] = "read_at"]
          /\ UNCHANGED ret
  /\ UNCHANGED << file, engine, index, cursor, hist, calls, tmp, fileLock >>

\* get: the positioned read through a handle of the reader's own, which
\* moves no cursor but its own, then decode and return.
LReadAt(t) ==
  /\ pc[t] = "read_at"
  /\ LET own == [k \in {local[t].key} |-> [pos |-> local[t].pos, len |-> local[t].len]]
         r == GetResult(own, file, local[t].key)
     IN ret' = Ret("get", local[t].key, << >>, r.ok, r.err, r.out)
  /\ pc' = [pc EXCEPT ![t] = "idle"]
  /\ UNCHANGED << file, engine, index, cursor, hist, calls, tmp, local, fileLock, indexLock >>

\* compact, holding the file lock: snapshot the index and give the shared
\* index lock up.
LSnapshot(t) ==
  /\ pc[t] = "snapshot" /\ fileLock = t /\ t \in indexLock.readers
  /\ local' = [local EXCEPT ![t].snap = index]
  /\ indexLock' = [indexLock EXCEPT !.readers = @ \ {t}]
  /\ pc' = [pc EXCEPT ![t] = "rewrite"]
  /\ UNCHANGED << file, engine, index, cursor, ret, hist, calls, tmp, fileLock >>

\* compact, holding the file lock: the read phase, which rewrites the live
\* payloads into the temporary file.  A payload that cannot be read fails
\* the compaction and the file lock is given up.
LRewrite(t, order) ==
  /\ pc[t] = "rewrite" /\ fileLock = t
  /\ LET r == Rewrite(local[t].snap, file, order, 1, << >>, EmptyIndex) IN
     /\ tmp' = r.file
     /\ IF r.ok
        THEN /\ local' = [local EXCEPT ![t].snap = r.index]
             /\ pc' = [pc EXCEPT ![t] = "index_lock"]
             /\ UNCHANGED << ret, fileLock >>
        ELSE /\ ret' = Ret("compact", << >>, << >>, FALSE, r.err, None)
             /\ fileLock' = 0
             /\ pc' = [pc EXCEPT ![t] = "idle"]
             /\ UNCHANGED local
  /\ UNCHANGED << file, engine, index, cursor, hist, calls, indexLock >>

\* compact, holding the file lock and the index lock: the temporary file
\* replaces the log, the index is replaced, both locks are given up.  A
\* compaction a set started returns as that set.
LSwap(t) ==
  /\ pc[t] = "swap" /\ fileLock = t /\ indexLock.writer = t
  /\ file' = tmp
  /\ tmp' = << >>
  /\ index' = local[t].snap
  /\ cursor' = Len(tmp)
  /\ ret' = IF IsSome(local[t].value)
            THEN Ret("set", local[t].key, local[t].value[1], TRUE, "", None)
            ELSE Ret("compact", << >>, << >>, TRUE, "", None)
  /\ fileLock' = 0
  /\ indexLock' = [indexLock EXCEPT !.writer = 0]
  /\ pc' = [pc EXCEPT ![t] = "idle"]
  /\ UNCHANGED << engine, hist, calls, local >>

\* Any step of thread t's call in flight.
LStep(t) ==
  \/ LAcquireFile(t)
  \/ LAppend(t)
  \/ LAcquireIndexWrite(t)
  \/ \E compacts \in BOOLEAN : LIndexPut(t, compacts)
  \/ LAcquireIndexRead(t)
  \/ LLookup(t)
  \/ LReadAt(t)
  \/ LSnapshot(t)
  \/ \E order \in Snapshots(local[t].snap) : LRewrite(t, order)
  \/ LSwap(t)

\* One key and one value: what a call carries does not decide who waits for
\* which lock.
LockKeys == { <<7>> }

LockValues == { <<1>> }

NextLocks ==
  \/ calls < MaxLockCalls
       /\ \E t \in Threads, k \in LockKeys, v \in LockValues, ts \in TStamps :
            LSet(t, k, v, ts)
  \/ calls < MaxLockCalls
       /\ \E t \in Threads, k \in LockKeys, ts \in TStamps : LDel(t, k, ts)
  \/ calls < MaxLockCalls /\ \E t \in Threads, k \in LockKeys : LGet(t, k)
  \/ calls < MaxLockCalls /\ \E t \in Threads : LCompact(t)
  \/ \E t \in Threads : LAcquireFile(t)
  \/ \E t \in Threads : LAppend(t)
  \/ \E t \in Threads : LAcquireIndexWrite(t)
  \/ \E t \in Threads, compacts \in BOOLEAN : LIndexPut(t, compacts)
  \/ \E t \in Threads : LAcquireIndexRead(t)
  \/ \E t \in Threads : LLookup(t)
  \/ \E t \in Threads : LReadAt(t)
  \/ \E t \in Threads : LSnapshot(t)
  \/ \E t \in Threads : \E order \in Snapshots(local[t].snap) : LRewrite(t, order)
  \/ \E t \in Threads : LSwap(t)

\* Locks are acquired in blocking fashion and no call is cancelled: a thread
\* whose next step stays possible takes it.
LockSpec == Init /\ [][NextLocks]_vars /\ \A t \in Threads : WF_vars(LStep(t))

\* A value as long as the frame of a tombstone for a one-byte key, so that a
\* set frame cut short by that many bytes is completed by the next del.
BigValue == [i \in 1..(LenBytes + 17 + 1) |-> 0]

NoFailedCall == \A i \in 1..Len(hist) : hist[i].ok

\* One write_all may fail after any strict prefix of its frame; every other
\* call succeeds.
NextTorn ==
  \/ calls < MaxTornCalls /\ \E k \in Keys, v \in Values, t \in TStamps : Set(k, v, t)
       /\ UNCHANGED xvars
  \/ calls < MaxTornCalls /\ \E k \in Keys, t \in TStamps : Del(k, t)
       /\ UNCHANGED xvars
  \/ calls < MaxTornCalls /\ NoFailedCall
       /\ \E k \in Keys, v \in Values \cup {BigValue}, t \in TStamps :
            \E n \in 0..(LenBytes + Len(Encode(t, k, Some(v))) - 1) : SetFail(k, v, t, n)
       /\ UNCHANGED xvars
  \/ calls < MaxTornCalls /\ NoFailedCall
       /\ \E k \in Keys, t \in TStamps :
            \E n \in 0..(LenBytes + Len(Encode(t, k, None)) - 1) : DelFail(k, t, n)
       /\ UNCHANGED xvars
  \/ \E k \in Keys : Get(k)
       /\ UNCHANGED xvars
  \/ Load
       /\ UNCHANGED xvars

TornSpec == Init /\ [][NextTorn]_vars

\* ------------------------------------------------- reading the history

\* The calls that returned Ok, in order.
Completed == SelectSeq(hist, LAMBDA c : c.ok)

\* The position in `h` of the last call on key `k`, 0 when there is none.
LastOf(h, k) ==
  LET S == { i \in 1..Len(h) : h[i].key = k } IN
  IF S = {} THEN 0 ELSE CHOOSE i \in S : \A j \in S : j <= i

\* The value the completed calls leave for key `k`: that of the last
\* completed set or del on `k`, None when `k` was never written.
Latest(k) ==
  LET h == Completed
      i == LastOf(h, k)
  IN IF i = 0 THEN None ELSE h[i].value

\* Length of the payload a call encodes, and of its whole frame.
PayloadLen(c) == Len(Encode(c.tstamp, c.key, c.value))

FrameLen(c) == LenBytes + PayloadLen(c)

\* The file made of the whole frames of the calls in `h`, in order.
RECURSIVE FileOf(_)
FileOf(h) ==
  IF h = << >> THEN << >>
  ELSE FileOf(SubSeq(h, 1, Len(h) - 1))
         \o Frame(Encode(h[Len(h)].tstamp, h[Len(h)].key, h[Len(h)].value))

\* Offset of the frame of the i-th call when the file is FileOf(h).
RECURSIVE FrameStart(_, _)
FrameStart(h, i) ==
  IF i = 1 THEN 0 ELSE FrameStart(h, i - 1) + FrameLen(h[i - 1])

\* The index "last record per key wins" prescribes for the file FileOf(h):
\* the keys whose last frame carries a value, each at that frame's payload.
LastWins(h) ==
  [k \in { h[i].key : i \in { j \in 1..Len(h) : IsSome(h[LastOf(h, h[j].key)].value) } } |->
     [pos |-> FrameStart(h, LastOf(h, k)) + LenBytes,
      len |-> PayloadLen(h[LastOf(h, k)])]]

\* What a caller of get(k) would see in the current state.
View(idx, f, k) ==
  LET r == GetResult(idx, f, k) IN << r.ok, r.err, r.out >>

\* ------------------------------------------------------------------ claims

\* C1 (round trip): a successful set(k, v) immediately followed by get(k)
\* returns Ok(Some(v)), for every key and value, the empty value included.
C1_RoundTrip ==
  [][ (ret.op = "set" /\ ret.ok /\ ret'.op = "get" /\ ret'.key = ret.key)
        => (ret'.ok /\ ret'.out = Some(ret.arg)) ]_vars

\* Witness of C1: get has just answered Some(<<>>) for the key whose last
\* completed call is a set of the empty value.
C1_Witness ==
  /\ ret.op = "get" /\ ret.ok
  /\ ret.out = Some(<< >>)
  /\ ret.out # None
  /\ Len(hist) > 0
  /\ hist[Len(hist)].key = ret.key
  /\ hist[Len(hist)].value = Some(<< >>)

\* C2 (overwrite): get(k) returns the value of the most recent completed
\* set on k, whatever was set on k before and whatever happened to other keys
\* in between.
C2_Overwrite ==
  (ret.op = "get" /\ IsSome(Latest(ret.key)))
    => (ret.ok /\ ret.out = Latest(ret.key))

\* Witness of C2: k was set, another key was written, k was set to a
\* different value, and get(k) answered the second value.
C2_Witness ==
  /\ ret.op = "get" /\ ret.ok
  /\ \E i, j, l \in 1..Len(hist) :
       /\ i < j /\ j < l /\ l = LastOf(hist, ret.key)
       /\ hist[i].key = ret.key /\ hist[j].key # ret.key
       /\ IsSome(hist[i].value) /\ IsSome(hist[l].value)
       /\ hist[i].value # hist[l].value
       /\ ret.out = hist[l].value

\* C3 (tombstone): while the last completed call on k is a del, get(k)
\* returns Ok(None), however many sets came before it; once a set on k
\* follows the del, get(k) returns that set's value.
C3_Tombstone ==
  ret.op = "get" =>
    LET h == Completed
        i == LastOf(h, ret.key)
    IN
    /\ (i # 0 /\ h[i].value = None) => (ret.ok /\ ret.out = None)
    /\ (i # 0 /\ IsSome(h[i].value)
          /\ \E j \in 1..(i - 1) : h[j].key = ret.key /\ h[j].value = None)
         => (ret.ok /\ ret.out = h[i].value)

\* Witness of C3: k was set twice and then deleted, and get(k) answered
\* None.
C3_Witness ==
  /\ ret.op = "get" /\ ret.ok /\ ret.out = None
  /\ \E i, j, l \in 1..Len(hist) :
       /\ i < j /\ j < l /\ l = LastOf(hist, ret.key)
       /\ hist[i].key = ret.key /\ IsSome(hist[i].value)
       /\ hist[j].key = ret.key /\ IsSome(hist[j].value)
       /\ hist[l].value = None

\* A state in which a key deleted earlier was set again and get answered the
\* new value (the second half of C3).
C3_Resurrected ==
  /\ ret.op = "get" /\ ret.ok /\ IsSome(ret.out)
  /\ \E j, l \in 1..Len(hist) :
       /\ j < l /\ l = LastOf(hist, ret.key)
       /\ hist[j].key = ret.key /\ hist[j].value = None
       /\ ret.out = hist[l].value

\* C4 (delete of an absent key): del(k) of a key that is not in the index
\* returns Ok and leaves what get returns unchanged for every key; get of a
\* key that is not in the index returns Ok(None).
C4_DeleteAbsent ==
  [][ /\ (calls' = calls + 1 /\ ret'.op = "del" /\ ret'.key \notin DOMAIN index)
         => /\ ret'.ok
            /\ \A k \in Keys : View(index', file', k) = View(index, file, k)
      /\ (ret'.op = "get" /\ ret'.key \notin DOMAIN index)
         => (ret'.ok /\ ret'.out = None) ]_vars

\* Witness of C4: del has just returned Ok for a key with no live record
\* (never written, or deleted before) while another key is live.
C4_Witness ==
  /\ ret.op = "del" /\ ret.ok
  /\ Len(hist) > 1
  /\ hist[Len(hist)].key = ret.key
  /\ LET before == SubSeq(hist, 1, Len(hist) - 1)
         i == LastOf(before, ret.key)
     IN i = 0 \/ before[i].value = None
  /\ \E k \in DOMAIN index : k # ret.key

\* C5 (durability across reopen): dropping the engine and loading the file
\* again succeeds and gives, for every key, the get result the engine gave
\* just before (all calls having succeeded).
C5_Durability ==
  [][ (ret'.op = "load" /\ engine = "open")
        => /\ ret'.ok
           /\ engine' = "open"
           /\ \A k \in Keys : View(index', file', k) = View(index, file, k) ]_vars

\* Witness of C5: a load has just succeeded on a file in which one key was
\* overwritten with a different value and another was set and then deleted,
\* and get gives the latest value of the first and None for the second.
C5_Witness ==
  /\ ret.op = "load" /\ ret.ok /\ engine = "open"
  /\ \E a, b \in Keys :
       /\ a # b
       /\ \E i, l \in 1..Len(hist) :
            /\ i < l /\ l = LastOf(hist, a)
            /\ hist[i].key = a /\ IsSome(hist[i].value) /\ IsSome(hist[l].value)
            /\ hist[i].value # hist[l].value
            /\ View(index, file, a) = << TRUE, "", hist[l].value >>
       /\ \E i, l \in 1..Len(hist) :
            /\ i < l /\ l = LastOf(hist, b)
            /\ hist[i].key = b /\ IsSome(hist[i].value) /\ hist[l].value = None
            /\ View(index, file, b) = << TRUE, "", None >>

\* C6 (replay is last-record-wins): when the file is a concatenation of
\* well-formed frames, load succeeds and the index it builds holds exactly the
\* keys whose last frame carries a value, each mapped to the payload offset
\* and length of that last frame.
C6_ReplayLastWins ==
  (ret.op = "load" /\ file = FileOf(Completed))
    => (ret.ok /\ index = LastWins(Completed))

\* Witness of C6: a load over a file with two value frames for one key and a
\* value frame followed by a tombstone for another; the index holds the first
\* key only, at its second frame.
C6_Witness ==
  /\ ret.op = "load" /\ ret.ok
  /\ file = FileOf(Completed)
  /\ \E a, b \in Keys :
       /\ a # b
       /\ DOMAIN index = {a}
       /\ \E i, l \in 1..Len(hist) :
            /\ i < l /\ hist[i].key = a /\ hist[l].key = a
            /\ index[a].pos = FrameStart(hist, l) + LenBytes
            /\ index[a].pos # FrameStart(hist, i) + LenBytes
       /\ \E i, l \in 1..Len(hist) :
            /\ i < l /\ hist[i].key = b /\ hist[l].key = b
            /\ IsSome(hist[i].value) /\ hist[l].value = None

\* C7 (the index is a cache of the log): after any sequence of successful
\* load/set/del calls the index equals the one a replay of the current file
\* from offset 0 builds, and a key is in it iff its latest record carries a
\* value.
C7_IndexIsReplay ==
  engine = "open" =>
    LET r == rebuild_index(file, 0, EmptyIndex) IN
    /\ r.ok
    /\ r.index = index
    /\ DOMAIN index = { k \in Keys : IsSome(Latest(k)) }

\* Witness of C7: the index was last changed by a del (not rebuilt by a
\* load), still holds a key, and equals the replay of the file.
C7_Witness ==
  /\ engine = "open"
  /\ ret.op = "del" /\ ret.ok
  /\ Len(hist) >= 3
  /\ index # EmptyIndex
  /\ \E i \in 1..(Len(hist) - 1) : hist[i].key = ret.key /\ IsSome(hist[i].value)
  /\ rebuild_index(file, 0, EmptyIndex).index = index

\* C8 (index entries point at whole live payloads): every index entry
\* k -> {pos, len} has pos 8 bytes after the start of a frame, len equal to
\* that frame's length prefix, pos + len within the file, and a payload that
\* decodes to a record with key k and a present value; so get(k) returns
\* Ok(Some(_)).
C8_EntriesPointAtPayloads ==
  engine = "open" =>
    \A k \in DOMAIN index :
      LET e == index[k]
          entry == Decode(SubSeq(file, e.pos + 1, e.pos + e.len))
          r == GetResult(index, file, k)
      IN
      /\ \E i \in 1..Len(hist) : e.pos = FrameStart(hist, i) + LenBytes
      /\ e.pos >= LenBytes
      /\ FromLE8(SubSeq(file, e.pos - LenBytes + 1, e.pos)) = e.len
      /\ e.pos + e.len <= Len(file)
      /\ entry.ok /\ entry.key = k /\ IsSome(entry.value)
      /\ r.ok /\ IsSome(r.out)

\* Witness of C8: two keys are indexed, one of them at a frame that is not
\* the last of the file, after a record of that key was superseded.
C8_Witness ==
  /\ engine = "open"
  /\ \E a, b \in DOMAIN index :
       /\ a # b
       /\ index[a].pos + index[a].len < Len(file)
       /\ index[a].pos > LenBytes
       /\ LastOf(hist, a) > 1
       /\ hist[1].key = a

\* C9 (a failed set or del leaves the index unmodified): when set or del
\* returns Err, at whichever step and however many bytes of the frame were
\* written, the index is the one before the call, get returns for every key
\* what it returned before, and no index entry reaches into the bytes the
\* failed call wrote.
C9_FailedWriteKeepsIndex ==
  [][ (calls' = calls + 1 /\ ~ret'.ok)
        => /\ index' = index
           /\ \A k \in Keys : View(index', file', k) = View(index, file, k)
           /\ \A k \in DOMAIN index' :
                index'[k].pos + index'[k].len <= Len(file) ]_vars

\* Witness of C9: a set on an indexed key has just failed after writing part
\* of its frame, and get still returns the value set before, which differs
\* from the one the failed call carried.
C9_Witness ==
  /\ ret.op = "set" /\ ~ret.ok
  /\ Len(hist) > 1
  /\ hist[Len(hist)].written > 0
  /\ hist[Len(hist)].written < FrameLen(hist[Len(hist)])
  /\ ret.key \in DOMAIN index
  /\ View(index, file, ret.key) = << TRUE, "", Latest(ret.key) >>
  /\ Latest(ret.key) # Some(ret.arg)

\* The file is a concatenation of whole frames followed by one frame whose
\* length prefix is complete and whose payload is cut short: every call but
\* the last wrote nothing or its whole frame, the last wrote its prefix and
\* less than its payload.
TruncatedTail ==
  /\ Len(hist) > 0
  /\ LET n == Len(hist)
         last == hist[n]
         whole == SelectSeq(SubSeq(hist, 1, n - 1), LAMBDA c : c.written > 0)
     IN
     /\ \A i \in 1..(n - 1) : hist[i].written \in {0, FrameLen(hist[i])}
     /\ last.written >= LenBytes
     /\ last.written < FrameLen(last)
     /\ file = FileOf(whole)
                 \o SubSeq(Frame(Encode(last.tstamp, last.key, last.value)), 1, last.written)

\* C10 (a truncated tail is reported): load of a file whose last frame has a
\* whole length prefix and less payload than it announces returns Err of kind
\* UnexpectedEof, which is not the InvalidData kind of a decode failure, and
\* returns no engine.
C10_TruncatedTailReported ==
  (ret.op = "load" /\ TruncatedTail)
    => /\ ~ret.ok
       /\ engine = "none"
       /\ ret.err = "UnexpectedEof"
       /\ ret.err # "InvalidData"

\* Witness of C10: load has just failed on a file holding one whole frame and
\* then a frame with some but not all of its payload.
C10_Witness ==
  /\ ret.op = "load" /\ ~ret.ok
  /\ TruncatedTail
  /\ Len(hist) = 2
  /\ hist[1].ok
  /\ hist[2].written > LenBytes

\* A load that failed with the decode error: the other error kind occurs.
CorruptionReported == ret.op = "load" /\ ~ret.ok /\ ret.err = "InvalidData"

\* The records of the whole frames of file `f` from offset `off` on, in file
\* order, read the way rebuild_index reads them; the scan stops at the end of
\* the file or at a frame that is not whole.
RECURSIVE ScanFrames(_, _)
ScanFrames(f, off) ==
  IF off + LenBytes > Len(f) THEN << >>
  ELSE
    LET entry_len == FromLE8(SubSeq(f, off + 1, off + LenBytes))
        data_pos == off + LenBytes
    IN
    IF entry_len = Huge \/ data_pos + entry_len > Len(f) THEN << >>
    ELSE << [pos |-> data_pos, len |-> entry_len,
             entry |-> Decode(SubSeq(f, data_pos + 1, data_pos + entry_len))] >>
           \o ScanFrames(f, data_pos + entry_len)

\* The file is nothing but whole frames.
AllFrames(f) ==
  LET frames == ScanFrames(f, 0) IN
  IF frames = << >> THEN f = << >>
  ELSE frames[Len(frames)].pos + frames[Len(frames)].len = Len(f)

\* A step in which compact() returned Ok.
CompactReturnsOk == ret'.op = "compact" /\ ret'.ok

\* C11 (compaction preserves logical content): a successful compact() leaves
\* the result of get(k) as it was for every key k: a live key keeps its
\* latest value, a deleted or never written key stays not found.
C11_CompactPreservesContent ==
  [][ CompactReturnsOk
        => \A k \in Keys :
             /\ View(index', file', k) = View(index, file, k)
             /\ View(index', file', k) = << TRUE, "", Latest(k) >> ]_vars

\* Witness of C11: compact() has just returned Ok on a store with a live key
\* that was overwritten, which get still reads, and a key that is not found.
C11_Witness ==
  /\ ret.op = "compact" /\ ret.ok
  /\ \E k \in DOMAIN index :
       /\ Cardinality({ i \in 1..Len(hist) : hist[i].key = k /\ IsSome(hist[i].value) }) >= 2
       /\ View(index, file, k) = << TRUE, "", Latest(k) >>
  /\ \E k \in Keys \ DOMAIN index : View(index, file, k) = << TRUE, "", None >>

\* C12 (compaction output is minimal): after a successful compact() the log
\* is exactly one frame per live key, each holding that key's latest value,
\* and nothing else: no tombstone, no superseded value.  The file is not
\* longer than before, and shorter when the file before held a tombstone or
\* two records of one key.
C12_CompactOutputMinimal ==
  [][ CompactReturnsOk
        => LET before == ScanFrames(file, 0)
               after == ScanFrames(file', 0)
           IN
           /\ AllFrames(file')
           /\ \A i \in DOMAIN after :
                /\ after[i].entry.ok
                /\ IsSome(after[i].entry.value)
                /\ after[i].entry.value = Latest(after[i].entry.key)
                /\ \A j \in DOMAIN after :
                     after[j].entry.key = after[i].entry.key => j = i
           /\ { after[i].entry.key : i \in DOMAIN after } = DOMAIN index
           /\ Len(after) = Cardinality(DOMAIN index)
           /\ Len(file') <= Len(file)
           /\ ( \/ \E i \in DOMAIN before : ~IsSome(before[i].entry.value)
                \/ \E i, j \in DOMAIN before :
                     i # j /\ before[i].entry.key = before[j].entry.key )
                => Len(file') < Len(file) ]_vars

\* Witness of C12: compact() has just returned Ok, a live key is left in the
\* file, and the file is shorter than the frames written to it.
C12_Witness ==
  /\ ret.op = "compact" /\ ret.ok
  /\ index # EmptyIndex
  /\ Len(ScanFrames(file, 0)) = Cardinality(DOMAIN index)
  /\ Len(file) < Len(FileOf(hist))

\* The longest frame a set of the modelled keys and values appends.
FrameLens ==
  { Len(Frame(Encode(t, k, Some(v)))) : k \in Keys, v \in Values, t \in TStamps }

MaxFrameLen == CHOOSE n \in FrameLens : \A m \in FrameLens : m <= n

\* Every call so far was a successful set of one and the same key.
SetsOfOneKey ==
  /\ hist # << >>
  /\ \A i \in 1..Len(hist) :
       hist[i].ok /\ IsSome(hist[i].value) /\ hist[i].key = hist[1].key

\* C13 as stated, for a compaction threshold of Threshold bytes: after each
\* of any number of successive sets of one key, get returns the value just
\* written and the file is shorter than the threshold plus one frame (what
\* one compacted record and less than a threshold of appended bytes add up
\* to), however many sets there were.
C13_AutoCompactionBoundsFile ==
  (engine = "open" /\ SetsOfOneKey /\ ret.op = "set" /\ ret.ok)
    => /\ View(index, file, ret.key) = << TRUE, "", Some(ret.arg) >>
       /\ Len(file) < Threshold + MaxFrameLen

\* C14 (failed compaction is harmless): when compact() fails, before the
\* rename or at it, the log file and the index are what they were before
\* the call and every get returns what it returned before.
C14_FailedCompactHarmless ==
  [][ (ret'.op = "compact" /\ ~ret'.ok)
        => /\ file' = file
           /\ index' = index
           /\ \A k \in Keys : View(index', file', k) = View(index, file, k) ]_vars

\* Witness of C14: compact() has just failed with part of the temporary file
\* written, and a live key with superseded records in the log is still read.
C14_Witness ==
  /\ ret.op = "compact" /\ ~ret.ok
  /\ tmp # << >>
  /\ Len(ScanFrames(file, 0)) > Cardinality(DOMAIN index)
  /\ \E k \in DOMAIN index : View(index, file, k) = << TRUE, "", Latest(k) >>

LockOrderStep ==
  \A t \in Threads :
    /\ (fileLock' = t /\ fileLock # t) => ~HoldsIndex(t)
    /\ (fileLock' = t /\ (indexLock'.writer = t \/ t \in indexLock'.readers))
         => fileLock = t

C17_AppendOnly ==
  [][ (calls' = calls + 1 /\ ret'.ok)
        => LET c == hist'[Len(hist')]
               tail == SubSeq(file', Len(file) + 1, Len(file'))
               entry == Decode(SubSeq(tail, LenBytes + 1, Len(tail)))
           IN
           /\ Len(file') > Len(file)
           /\ SubSeq(file', 1, Len(file)) = file
           /\ Len(tail) >= LenBytes
           /\ FromLE8(SubSeq(tail, 1, LenBytes)) = Len(tail) - LenBytes
           /\ tail = Frame(Encode(c.tstamp, c.key, c.value))
           /\ entry.ok /\ entry.key = ret'.key /\ entry.value = c.value ]_vars

\* Witness of C17: a del of a key that was never written has just returned
\* Ok behind an earlier frame, and the file is the earlier file plus the
\* tombstone frame.
C17_Witness ==
  /\ ret.op = "del" /\ ret.ok
  /\ Len(hist) >= 2
  /\ LastOf(SubSeq(hist, 1, Len(hist) - 1), ret.key) = 0
  /\ file = FileOf(SubSeq(hist, 1, Len(hist) - 1))
              \o Frame(Encode(hist[Len(hist)].tstamp, ret.key, None))

\* C18 (keys are independent): a successful set(k, _) or del(k) leaves, for
\* every other key, the get result and the index entry as they were.
C18_KeysIndependent ==
  [][ (calls' = calls + 1 /\ ret'.ok)
        => \A k \in Keys \ {ret'.key} :
             /\ View(index', file', k) = View(index, file, k)
             /\ (k \in DOMAIN index') = (k \in DOMAIN index)
             /\ k \in DOMAIN index => index'[k] = index[k] ]_vars

\* Witness of C18: a del of one key has just returned Ok while another key
\* is live and get still returns that key's value.
C18_Witness ==
  /\ ret.op = "del" /\ ret.ok
  /\ \E k \in DOMAIN index :
       /\ k # ret.key
       /\ IsSome(Latest(k))
       /\ View(index, file, k) = << TRUE, "", Latest(k) >>
  /\ \E i \in 1..(Len(hist) - 1) : hist[i].key = ret.key /\ IsSome(hist[i].value)

\* C19 (get is read-only for the store): a get changes neither the index
\* nor the file, whatever it returns; it may move the cursor, and the set
\* or del that follows still appends its frame at the end of the file and, for
\* set, records the payload offset of that frame.
C19_GetIsReadOnly ==
  [][ /\ (ret'.op = "get" /\ calls' = calls) => (index' = index /\ file' = file)
      /\ (ret.op = "get" /\ calls' = calls + 1 /\ ret'.ok)
           => /\ SubSeq(file', 1, Len(file)) = file
              /\ file' = file \o Frame(Encode(hist'[Len(hist')].tstamp, ret'.key,
                                               hist'[Len(hist')].value))
              /\ ret'.op = "set" =>
                   index'[ret'.key] =
                     [pos |-> Len(file) + LenBytes,
                      len |-> Len(file') - Len(file) - LenBytes] ]_vars

\* Witness of C19: a get has just returned a value from a frame that is not
\* the last, so the cursor stands inside the file, and a set or del can
\* follow.
C19_Witness ==
  /\ ret.op = "get" /\ ret.ok /\ IsSome(ret.out)
  /\ cursor < Len(file)
  /\ cursor = index[ret.key].pos + index[ret.key].len
  /\ calls < MaxCalls

\* C20 as stated: when every failed call wrote a strict prefix of its frame,
\* an engine that is open (the surviving one, or one a later load returned)
\* gives for every key the get result of the completed calls.
C20_NoSilentlyWrongStore ==
  ((\A i \in 1..Len(hist) : ~hist[i].ok => hist[i].written < FrameLen(hist[i]))
     /\ engine = "open")
    => \A k \in Keys : View(index, file, k) = << TRUE, "", Latest(k) >>

====
